---- MODULE Spec2Model ----
(***************************************************************************)
(* LivroController (src/src/controller/LivroController.ts): the four       *)
(* Express handlers todos, novo, remover and atualizar, run as concurrent  *)
(* asynchronous invocations.  An invocation runs without interruption up   *)
(* to its single `await` of a Livro (repository) method, is suspended      *)
(* while the awaited promise is pending, and runs its continuation to the  *)
(* end once the promise has settled.                                       *)
(***************************************************************************)
EXTENDS Integers, Sequences, FiniteSets, TLC

VARIABLES
    pc,         \* pc[i]: position of invocation i: idle, awaiting, settled, done
    req,        \* req[i]: the Request the router handed to invocation i
    frame,      \* frame[k]: the parameter `res` held by the activation record k
    promise,    \* promise[i]: the promise of the Livro method invocation i awaits
    call,       \* call[i]: the Livro methods invocation i has called, with arguments
    repoCount,  \* repoCount[m]: how many times the Livro method m has been called
    sent,       \* sent[i]: the responses written to the Response object of invocation i
    returned    \* returned[i]: state of the promise the async handler returned

vars == <<pc, req, frame, promise, call, repoCount, sent, returned>>

\* Number of handler invocations that can be in flight together.
NumInv == 2

Invocations == 1..NumInv

---------------------------------------------------------------------------
(* JavaScript values, as records of one shape.                             *)

Undef == [t |-> "undefined", s |-> <<>>, n |-> 0]

NaN == [t |-> "NaN", s |-> <<>>, n |-> 0]

\* a string, as its sequence of characters
Str(chars) == [t |-> "string", s |-> chars, n |-> 0]

Num(k) == [t |-> "number", s |-> <<>>, n |-> k]

Bool(b) == [t |-> "boolean", s |-> <<>>, n |-> IF b THEN 1 ELSE 0]

\* an array, as the sequence of its items (a book stands as its title)
Arr(items) == [t |-> "array", s |-> items, n |-> 0]

\* an object literal with one property
Obj(key, value) == [t |-> "object", s |-> <<key, value>>, n |-> 0]

\* the property names of an object
Keys(o) == {o.s[k] : k \in {j \in 1..Len(o.s) : j % 2 = 1}}

\* ToBoolean, as the `if (resposta)` tests apply it
Truthy(v) ==
    CASE v.t = "undefined" -> FALSE
      [] v.t = "NaN"       -> FALSE
      [] v.t = "number"    -> v.n # 0
      [] v.t = "boolean"   -> v.n = 1
      [] v.t = "string"    -> v.s # <<>>
      [] OTHER             -> TRUE

\* ToString, applied to the argument of parseInt
JSToString(v) ==
    IF v.t = "string" THEN v.s
    ELSE IF v.t = "undefined" THEN <<"u", "n", "d", "e", "f", "i", "n", "e", "d">>
    ELSE <<"N", "a", "N">>

---------------------------------------------------------------------------
(* parseInt(string) with no radix argument.                                *)

Digits == <<"0", "1", "2", "3", "4", "5", "6", "7", "8", "9",
            "a", "b", "c", "d", "e", "f">>

UpperDigits == <<"0", "1", "2", "3", "4", "5", "6", "7", "8", "9",
                 "A", "B", "C", "D", "E", "F">>

IsRadixDigit(c, R) == \E k \in 1..R : Digits[k] = c \/ UpperDigits[k] = c

DigitValue(c) == (CHOOSE k \in 1..16 : Digits[k] = c \/ UpperDigits[k] = c) - 1

WhiteSpace == {" "}

RECURSIVE TrimStart(_)
TrimStart(cs) ==
    IF cs # <<>> /\ Head(cs) \in WhiteSpace THEN TrimStart(Tail(cs)) ELSE cs

\* the longest prefix of cs made of digits of radix R
RECURSIVE DigitPrefix(_, _)
DigitPrefix(cs, R) ==
    IF cs # <<>> /\ IsRadixDigit(Head(cs), R)
    THEN <<Head(cs)>> \o DigitPrefix(Tail(cs), R)
    ELSE <<>>

\* the value of the digits cs in radix R, acc being the value read so far
RECURSIVE MathInt(_, _, _)
MathInt(cs, R, acc) ==
    IF cs = <<>> THEN acc
    ELSE MathInt(Tail(cs), R, acc * R + DigitValue(Head(cs)))

ParseInt(v) ==
    LET S0       == TrimStart(JSToString(v))
        signed   == S0 # <<>> /\ Head(S0) \in {"+", "-"}
        sign     == IF S0 # <<>> /\ Head(S0) = "-" THEN -1 ELSE 1
        S1       == IF signed THEN Tail(S0) ELSE S0
        hex      == Len(S1) >= 2 /\ S1[1] = "0" /\ S1[2] \in {"x", "X"}
        R        == IF hex THEN 16 ELSE 10
        S2       == IF hex THEN Tail(Tail(S1)) ELSE S1
        Z        == DigitPrefix(S2, R)
    IN  IF Z = <<>> THEN NaN ELSE Num(sign * MathInt(Z, R, 0))

---------------------------------------------------------------------------
(* The Livro entity (src/model/Livro.ts): constructor and setIdLivro.      *)

Livro(titulo, autor, anoPublicacao, editora, isbn, quantTotal, quantDisponivel, valorAquisicao, statusLivroEmprestado) ==
    [ idLivro               |-> Undef,
      titulo                |-> titulo,
      autor                 |-> autor,
      anoPublicacao         |-> anoPublicacao,
      editora               |-> editora,
      isbn                  |-> isbn,
      quantTotal            |-> quantTotal,
      quantDisponivel       |-> quantDisponivel,
      valorAquisicao        |-> valorAquisicao,
      statusLivroEmprestado |-> statusLivroEmprestado ]

setIdLivro(livro, id) == [livro EXCEPT !.idLivro = id]

---------------------------------------------------------------------------
(* Requests.  req.body is <<>> when the request carries no parsed body and *)
(* <<b>> when it carries the object b; req.params holds the route          *)
(* parameters under the names the router declares.                         *)

\* a body with the nine LivroDTO properties and an identifier of its own
BodyCompleto ==
    [ idLivro               |-> Num(99),
      titulo                |-> "A",
      autor                 |-> "B",
      anoPublicacao         |-> "2020",
      editora               |-> "C",
      isbn                  |-> "123",
      quantTotal            |-> "5",
      quantDisponivel       |-> "2",
      valorAquisicao        |-> "10.5",
      statusLivroEmprestado |-> "none" ]

Bodies == {<<>>, <<BodyCompleto>>}

\* the texts a route parameter takes: "42", "abc", "7x"
ParamTexts == {<<"4", "2">>, <<"a", "b", "c">>, <<"7", "x">>}

NoParams == [idlivro |-> Undef, idLivro |-> Undef]

\* a route declares its one parameter as :idlivro or as :idLivro
Params ==
    {[NoParams EXCEPT !.idlivro = Str(cs)] : cs \in ParamTexts}
        \cup {[NoParams EXCEPT !.idLivro = Str(cs)] : cs \in ParamTexts}

Handlers == {"todos", "novo", "remover", "atualizar"}

NoRequest == [handler |-> "none", body |-> <<>>, params |-> NoParams]

Requests(h) ==
    CASE h = "todos"     -> {[handler |-> h, body |-> <<>>, params |-> NoParams]}
      [] h = "novo"      -> {[handler |-> h, body |-> b, params |-> NoParams] : b \in Bodies}
      [] h = "remover"   -> {[handler |-> h, body |-> <<>>, params |-> p] : p \in Params}
      [] h = "atualizar" -> {[handler |-> h, body |-> b, params |-> p] : b \in Bodies, p \in Params}

---------------------------------------------------------------------------
(* The Livro methods the handlers await, and how their promises settle.    *)

Methods == {"listagemLivros", "cadastroLivro", "removerLivro", "atualizarLivro"}

NoOutcome == [kind |-> "none", val |-> Undef]

Pending == [kind |-> "pending", val |-> Undef]

\* the call threw before it returned a promise
Threw == [kind |-> "threw", val |-> Undef]

Rejected == [kind |-> "rejected", val |-> Undef]

Resolved(v) == [kind |-> "resolved", val |-> v]

\* what the promise of method m can settle to
Outcomes(m) ==
    IF m = "listagemLivros"
    THEN {Resolved(Arr(<<>>)), Resolved(Arr(<<"A">>)), Rejected}
    ELSE {Resolved(Bool(TRUE)), Resolved(Bool(FALSE)), Rejected}

---------------------------------------------------------------------------
(* The handlers.  A handler's run is the list of responses it writes and   *)
(* the state its own promise ends in.                                      *)

StatusOK == 200

StatusBadRequest == 400

\* res.status(code).json(body)
Json(code, body) == [status |-> code, body |-> body]

\* the handler returned after writing `replies`
Return(replies) == [replies |-> replies, state |-> "fulfilled"]

\* the handler let an error out, having written `replies`
Escape(replies) == [replies |-> replies, state |-> "rejected"]

\* todos with an empty listing taken for a failure
todosSettledEmptyIsError(o) ==
    IF o.kind = "resolved" /\ o.val.s # <<>>
    THEN Return(<<Json(StatusOK, o.val)>>)
    ELSE Return(<<Json(StatusBadRequest,
                       Obj("mensagem", "Não foi possível acessar a listagem de livros"))>>)

\* todos, from the await on: the try block and its catch
todosSettled(o) ==
    IF o.kind = "resolved"
    THEN Return(<<Json(StatusOK, o.val)>>)
    ELSE Return(<<Json(StatusBadRequest,
                       Obj("mensagem", "Não foi possível acessar a listagem de livros"))>>)

\* novo: reading a property of an absent body throws
novoThrows(r) == r.body = <<>>

\* novo: the Livro built from the body
novoLivro(r) ==
    LET livroRecebido == r.body[1]
    IN  Livro(livroRecebido.titulo, livroRecebido.autor, livroRecebido.anoPublicacao,
              livroRecebido.editora, livroRecebido.isbn, livroRecebido.quantTotal,
              livroRecebido.quantDisponivel, livroRecebido.valorAquisicao,
              livroRecebido.statusLivroEmprestado)

\* novo with no catch around its try block
novoSettledNoCatch(o) ==
    IF o.kind = "resolved"
    THEN IF Truthy(o.val)
         THEN Return(<<Json(StatusOK, Obj("mensagem", "Livro cadastrado com sucesso!"))>>)
         ELSE Return(<<Json(StatusBadRequest,
                            Obj("mensagem", "Erro ao cadastrar o livro. Entre em contato com o administrador do sistema."))>>)
    ELSE Escape(<<>>)

\* novo, from the await on: the try block and its catch
novoSettled(o) ==
    IF o.kind = "resolved"
    THEN IF Truthy(o.val)
         THEN Return(<<Json(StatusOK, Obj("mensagem", "Livro cadastrado com sucesso!"))>>)
         ELSE Return(<<Json(StatusBadRequest,
                            Obj("mensagem", "Erro ao cadastrar o livro. Entre em contato com o administrador do sistema."))>>)
    ELSE Return(<<Json(StatusBadRequest,
                       Obj("mensagem", "Não foi possível cadastrar o livro. Entre em contato com o administrador do sistema."))>>)

\* remover passing the route parameter on as it came, unparsed
removerIdUnparsed(r) == r.params.idlivro

\* remover: the argument of removerLivro
removerId(r) == ParseInt(r.params.idlivro)

\* remover with no else branch: nothing is written when removerLivro resolved false
removerSettledNoElse(o) ==
    IF o.kind = "resolved"
    THEN IF Truthy(o.val)
         THEN Return(<<Json(StatusOK, Obj("mensagem", "O livro foi removido com sucesso!"))>>)
         ELSE Return(<<>>)
    ELSE Return(<<Json(StatusBadRequest,
                       Obj("mensagem", "Não foi possível remover o livro. Entre em contato com o administrador do sistema."))>>)

\* remover answering 404 when removerLivro resolved false
removerSettledNotFound(o) ==
    IF o.kind = "resolved"
    THEN IF Truthy(o.val)
         THEN Return(<<Json(StatusOK, Obj("mensagem", "O livro foi removido com sucesso!"))>>)
         ELSE Return(<<Json(404,
                            Obj("mensagem", "Erro ao remover o livro. Entre em contato com o administrador do sistema."))>>)
    ELSE Return(<<Json(StatusBadRequest,
                       Obj("mensagem", "Não foi possível remover o livro. Entre em contato com o administrador do sistema."))>>)

\* remover, from the await on: the try block and its catch
removerSettled(o) ==
    IF o.kind = "resolved"
    THEN IF Truthy(o.val)
         THEN Return(<<Json(StatusOK, Obj("mensagem", "O livro foi removido com sucesso!"))>>)
         ELSE Return(<<Json(StatusBadRequest,
                            Obj("mensagem", "Erro ao remover o livro. Entre em contato com o administrador do sistema."))>>)
    ELSE Return(<<Json(StatusBadRequest,
                       Obj("mensagem", "Não foi possível remover o livro. Entre em contato com o administrador do sistema."))>>)

\* atualizar: reading a property of an absent body throws
atualizarThrows(r) == r.body = <<>>

\* atualizar taking the identifier from the body
LivroAtualizadoIdDoBody(r) ==
    LET livroRecebido == r.body[1]
    IN  setIdLivro(Livro(livroRecebido.titulo, livroRecebido.autor,
                         livroRecebido.anoPublicacao, livroRecebido.editora,
                         livroRecebido.isbn, livroRecebido.quantTotal,
                         livroRecebido.quantDisponivel, livroRecebido.valorAquisicao,
                         livroRecebido.statusLivroEmprestado),
                   livroRecebido.idLivro)

\* atualizar: the Livro built from the body, with the identifier of the route
LivroAtualizado(r) ==
    LET livroRecebido == r.body[1]
        idlivroRecebido == ParseInt(r.params.idLivro)
    IN  setIdLivro(Livro(livroRecebido.titulo, livroRecebido.autor,
                         livroRecebido.anoPublicacao, livroRecebido.editora,
                         livroRecebido.isbn, livroRecebido.quantTotal,
                         livroRecebido.quantDisponivel, livroRecebido.valorAquisicao,
                         livroRecebido.statusLivroEmprestado),
                   idlivroRecebido)

\* atualizar with the key of its catch body written `message`
atualizarSettledOtherKey(o) ==
    IF o.kind = "resolved"
    THEN IF Truthy(o.val)
         THEN Return(<<Json(StatusOK, Obj("mensagem", "O Livro foi atualizado com sucesso!"))>>)
         ELSE Return(<<Json(StatusBadRequest,
                            Obj("mensagem", "Erro ao atualizar o Livro. Entre em contato com o administrador do sistema"))>>)
    ELSE Return(<<Json(StatusBadRequest,
                       Obj("message", "Não foi possivel atualizar o livro.Entre em contato com o administrador do sistema"))>>)

\* atualizar, from the await on: the try block and its catch
atualizarSettled(o) ==
    IF o.kind = "resolved"
    THEN IF Truthy(o.val)
         THEN Return(<<Json(StatusOK, Obj("mensagem", "O Livro foi atualizado com sucesso!"))>>)
         ELSE Return(<<Json(StatusBadRequest,
                            Obj("mensagem", "Erro ao atualizar o Livro. Entre em contato com o administrador do sistema"))>>)
    ELSE Return(<<Json(StatusBadRequest,
                       Obj("mensagem", "Não foi possivel atualizar o livro.Entre em contato com o administrador do sistema"))>>)

---------------------------------------------------------------------------
(* The state machine.                                                      *)

Init ==
    /\ pc = [i \in Invocations |-> "idle"]
    /\ req = [i \in Invocations |-> NoRequest]
    /\ frame = [k \in Invocations |-> 0]
    /\ promise = [i \in Invocations |-> NoOutcome]
    /\ call = [i \in Invocations |-> <<>>]
    /\ repoCount = [m \in Methods |-> 0]
    /\ sent = [i \in Invocations |-> <<>>]
    /\ returned = [i \in Invocations |-> "none"]

\* one record shared by every invocation, as static fields of the class would be
SharedActivation(i) == 1

\* the activation record that holds the parameters and locals of invocation i
Activation(i) == i

\* invocation i is entered with the request r and its own Response object
Enter(i, r) ==
    /\ req' = [req EXCEPT ![i] = r]
    /\ frame' = [frame EXCEPT ![Activation(i)] = i]

\* invocation i calls the Livro method m a second time for the value it tests
CallLivroTwice(i, m, args) ==
    /\ call' = [call EXCEPT ![i] = @ \o <<[m |-> m, args |-> args], [m |-> m, args |-> args]>>]
    /\ repoCount' = [repoCount EXCEPT ![m] = @ + 2]

\* invocation i calls the Livro method m
CallLivro(i, m, args) ==
    /\ call' = [call EXCEPT ![i] = Append(@, [m |-> m, args |-> args])]
    /\ repoCount' = [repoCount EXCEPT ![m] = @ + 1]

\* the call returned a pending promise: invocation i is suspended at its await
Suspend(i) ==
    /\ promise' = [promise EXCEPT ![i] = Pending]
    /\ pc' = [pc EXCEPT ![i] = "awaiting"]
    /\ returned' = [returned EXCEPT ![i] = "pending"]
    /\ UNCHANGED sent

\* invocation i ends: its responses go to the `res` of its activation record
Finish(i, run, res) ==
    /\ sent' = [sent EXCEPT ![res] = @ \o run.replies]
    /\ returned' = [returned EXCEPT ![i] = run.state]
    /\ pc' = [pc EXCEPT ![i] = "done"]

\* todos up to its await
Todos(i) ==
    /\ pc[i] = "idle"
    /\ \E r \in Requests("todos"), threw \in BOOLEAN :
         /\ Enter(i, r)
         /\ CallLivro(i, "listagemLivros", <<>>)
         /\ IF threw
            THEN /\ promise' = [promise EXCEPT ![i] = Threw]
                 /\ Finish(i, todosSettled(Threw), frame'[Activation(i)])
            ELSE Suspend(i)

\* todos from its await on
TodosResume(i) ==
    /\ pc[i] = "settled"
    /\ req[i].handler = "todos"
    /\ Finish(i, todosSettled(promise[i]), frame[Activation(i)])
    /\ UNCHANGED <<req, frame, promise, call, repoCount>>

\* novo answering from what an earlier novo with the same body was told to do
NovoDeduplicated(i) ==
    /\ pc[i] = "idle"
    /\ \E r \in Requests("novo"), threw \in BOOLEAN :
         /\ Enter(i, r)
         /\ IF novoThrows(r)
            THEN /\ ~threw
                 /\ Finish(i, novoSettled(Threw), frame'[Activation(i)])
                 /\ UNCHANGED <<promise, call, repoCount>>
            ELSE IF \E j \in Invocations : j # i /\ req[j] = r /\ call[j] # <<>>
                 THEN /\ ~threw
                      /\ Finish(i, novoSettled(Resolved(Bool(TRUE))), frame'[Activation(i)])
                      /\ UNCHANGED <<promise, call, repoCount>>
                 ELSE /\ CallLivro(i, "cadastroLivro", <<novoLivro(r)>>)
                      /\ IF threw
                         THEN /\ promise' = [promise EXCEPT ![i] = Threw]
                              /\ Finish(i, novoSettled(Threw), frame'[Activation(i)])
                         ELSE Suspend(i)

\* novo up to its await
Novo(i) ==
    /\ pc[i] = "idle"
    /\ \E r \in Requests("novo"), threw \in BOOLEAN :
         /\ Enter(i, r)
         /\ IF novoThrows(r)
            THEN /\ ~threw
                 /\ Finish(i, novoSettled(Threw), frame'[Activation(i)])
                 /\ UNCHANGED <<promise, call, repoCount>>
            ELSE /\ CallLivro(i, "cadastroLivro", <<novoLivro(r)>>)
                 /\ IF threw
                    THEN /\ promise' = [promise EXCEPT ![i] = Threw]
                         /\ Finish(i, novoSettled(Threw), frame'[Activation(i)])
                    ELSE Suspend(i)

\* novo from its await on
NovoResume(i) ==
    /\ pc[i] = "settled"
    /\ req[i].handler = "novo"
    /\ Finish(i, novoSettled(promise[i]), frame[Activation(i)])
    /\ UNCHANGED <<req, frame, promise, call, repoCount>>

\* remover up to its await
Remover(i) ==
    /\ pc[i] = "idle"
    /\ \E r \in Requests("remover"), threw \in BOOLEAN :
         /\ Enter(i, r)
         /\ CallLivro(i, "removerLivro", <<removerId(r)>>)
         /\ IF threw
            THEN /\ promise' = [promise EXCEPT ![i] = Threw]
                 /\ Finish(i, removerSettled(Threw), frame'[Activation(i)])
            ELSE Suspend(i)

\* remover from its await on
RemoverResume(i) ==
    /\ pc[i] = "settled"
    /\ req[i].handler = "remover"
    /\ Finish(i, removerSettled(promise[i]), frame[Activation(i)])
    /\ UNCHANGED <<req, frame, promise, call, repoCount>>

\* atualizar up to its await
Atualizar(i) ==
    /\ pc[i] = "idle"
    /\ \E r \in Requests("atualizar"), threw \in BOOLEAN :
         /\ Enter(i, r)
         /\ IF atualizarThrows(r)
            THEN /\ ~threw
                 /\ Finish(i, atualizarSettled(Threw), frame'[Activation(i)])
                 /\ UNCHANGED <<promise, call, repoCount>>
            ELSE /\ CallLivro(i, "atualizarLivro", <<LivroAtualizado(r)>>)
                 /\ IF threw
                    THEN /\ promise' = [promise EXCEPT ![i] = Threw]
                         /\ Finish(i, atualizarSettled(Threw), frame'[Activation(i)])
                    ELSE Suspend(i)

\* atualizar from its await on
AtualizarResume(i) ==
    /\ pc[i] = "settled"
    /\ req[i].handler = "atualizar"
    /\ Finish(i, atualizarSettled(promise[i]), frame[Activation(i)])
    /\ UNCHANGED <<req, frame, promise, call, repoCount>>

\* the promise invocation i awaits settles
Settle(i) ==
    /\ pc[i] = "awaiting"
    /\ \E o \in Outcomes(call[i][Len(call[i])].m) :
         promise' = [promise EXCEPT ![i] = o]
    /\ pc' = [pc EXCEPT ![i] = "settled"]
    /\ UNCHANGED <<req, frame, call, repoCount, sent, returned>>

Next ==
    \E i \in Invocations :
        \/ Todos(i)
        \/ TodosResume(i)
        \/ Novo(i)
        \/ NovoResume(i)
        \/ Remover(i)
        \/ RemoverResume(i)
        \/ Atualizar(i)
        \/ AtualizarResume(i)
        \/ Settle(i)

Spec == Init /\ [][Next]_vars

\* the event loop runs the continuation of an await whose promise has settled
Resume(i) ==
    TodosResume(i) \/ NovoResume(i) \/ RemoverResume(i) \/ AtualizarResume(i)

FairSpec == Spec /\ \A i \in Invocations : WF_vars(Resume(i))

TypeOK ==
    /\ pc \in [Invocations -> {"idle", "awaiting", "settled", "done"}]
    /\ returned \in [Invocations -> {"none", "pending", "fulfilled", "rejected"}]
    /\ \A i \in Invocations : frame[i] \in {0} \cup Invocations
    /\ \A i \in Invocations : req[i].handler \in Handlers \cup {"none"}
    /\ \A i \in Invocations : promise[i] \in {NoOutcome, Pending, Threw} \cup UNION {Outcomes(m) : m \in Methods}

---------------------------------------------------------------------------
(* Properties.                                                             *)

Started(i) == pc[i] # "idle"

Done(i) == pc[i] = "done"

\* the text of a { mensagem: text } body
Text(reply) == reply.body.s[2]

SuccessText(h) ==
    CASE h = "novo"      -> "Livro cadastrado com sucesso!"
      [] h = "remover"   -> "O livro foi removido com sucesso!"
      [] h = "atualizar" -> "O Livro foi atualizado com sucesso!"

FailureText(h) ==
    CASE h = "novo"      -> "Erro ao cadastrar o livro. Entre em contato com o administrador do sistema."
      [] h = "remover"   -> "Erro ao remover o livro. Entre em contato com o administrador do sistema."
      [] h = "atualizar" -> "Erro ao atualizar o Livro. Entre em contato com o administrador do sistema"

ThrownText(h) ==
    CASE h = "todos"     -> "Não foi possível acessar a listagem de livros"
      [] h = "novo"      -> "Não foi possível cadastrar o livro. Entre em contato com o administrador do sistema."
      [] h = "remover"   -> "Não foi possível remover o livro. Entre em contato com o administrador do sistema."
      [] h = "atualizar" -> "Não foi possivel atualizar o livro.Entre em contato com o administrador do sistema"

ThreeOutcomeMapping ==
    \A i \in Invocations :
        Done(i) =>
            LET h == req[i].handler
                o == promise[i]
                reply == sent[i][1]
            IN  /\ Len(sent[i]) = 1
                /\ reply.status \in {200, 400}
                /\ h # "todos" =>
                     /\ reply.status = 200 <=> (o.kind = "resolved" /\ Truthy(o.val))
                     /\ (o.kind = "resolved" /\ Truthy(o.val)) => Text(reply) = SuccessText(h)
                     /\ (o.kind = "resolved" /\ ~Truthy(o.val)) => Text(reply) = FailureText(h)
                     /\ o.kind # "resolved" => Text(reply) = ThrownText(h)
                     /\ ThrownText(h) # FailureText(h)

\* C2 witness: the same handler finished once on a false result and once on
\* a throw, with the same status and different texts.
ThreeOutcomeWitness ==
    \E i, j \in Invocations :
        /\ Done(i) /\ Done(j) /\ req[i].handler = "remover" /\ req[j].handler = "remover"
        /\ promise[i] = Resolved(Bool(FALSE)) /\ promise[j] = Rejected
        /\ sent[i][1].status = 400 /\ sent[j][1].status = 400
        /\ Text(sent[i][1]) # Text(sent[j][1])

\* C3: todos answers 200 with the very array listagemLivros resolved with,
\* the empty one included, and 400 with the one listing-error text when
\* listagemLivros threw, whichever way it threw.
ListAllMapping ==
    \A i \in Invocations :
        (Done(i) /\ req[i].handler = "todos") =>
            LET o == promise[i]
            IN  IF o.kind = "resolved"
                THEN sent[i] = <<[status |-> 200, body |-> o.val]>>
                ELSE /\ Len(sent[i]) = 1
                     /\ sent[i][1].status = 400
                     /\ sent[i][1].body.t = "object"
                     /\ Text(sent[i][1]) = ThrownText("todos")

\* C3 witness: listagemLivros resolved with the empty array and todos
\* answered 200 with it.
ListAllWitness ==
    \E i \in Invocations :
        /\ Done(i) /\ req[i].handler = "todos"
        /\ promise[i] = Resolved(Arr(<<>>))
        /\ sent[i] = <<[status |-> 200, body |-> Arr(<<>>)]>>

\* every body but the array of todos is an object whose only key is `key`
OnlyKey(key) ==
    \A i \in Invocations :
        \A k \in 1..Len(sent[i]) :
            LET reply == sent[i][k]
            IN  IF req[i].handler = "todos" /\ reply.status = 200
                THEN reply.body.t = "array"
                ELSE reply.body.t = "object" /\ Keys(reply.body) = {key}

DecimalDigit(c) ==
    CASE c = "0" -> 0 [] c = "1" -> 1 [] c = "2" -> 2 [] c = "3" -> 3 [] c = "4" -> 4
      [] c = "5" -> 5 [] c = "6" -> 6 [] c = "7" -> 7 [] c = "8" -> 8 [] c = "9" -> 9

DecimalDigits == {"0", "1", "2", "3", "4", "5", "6", "7", "8", "9"}

RECURSIVE DecimalValue(_)
DecimalValue(cs) ==
    IF cs = <<>> THEN 0
    ELSE 10 * DecimalValue(SubSeq(cs, 1, Len(cs) - 1)) + DecimalDigit(cs[Len(cs)])

\* a route parameter that is a decimal numeral
IsNumeric(p) ==
    p.t = "string" /\ p.s # <<>> /\ \A k \in 1..Len(p.s) : p.s[k] \in DecimalDigits

\* a route parameter with no digit in it, or no parameter at all
IsNonNumeric(p) ==
    p.t = "undefined" \/ (p.t = "string" /\ \A k \in 1..Len(p.s) : p.s[k] \notin DecimalDigits)

\* the identifier a route parameter stands for
ForwardedId(p, id) ==
    /\ id.t \in {"number", "NaN"}
    /\ IsNumeric(p) => id = Num(DecimalValue(p.s))
    /\ IsNonNumeric(p) => id = NaN

\* C5: the Livro atualizar passes to atualizarLivro has for identifier the
\* integer its route parameter is the numeral of, never the identifier of
\* the body, and its nine other fields are those of the body.
UpdateEntityFromPath ==
    \A i \in Invocations :
        (Started(i) /\ req[i].handler = "atualizar" /\ req[i].body # <<>>) =>
            /\ Len(call[i]) = 1
            /\ call[i][1].m = "atualizarLivro"
            /\ Len(call[i][1].args) = 1
            /\ LET e == call[i][1].args[1]
                   b == req[i].body[1]
                   p == req[i].params.idLivro
               IN  /\ IsNumeric(p) => e.idLivro = Num(DecimalValue(p.s))
                   /\ e.idLivro # b.idLivro
                   /\ e.idLivro.t \in {"number", "NaN"}
                   /\ e.titulo = b.titulo
                   /\ e.autor = b.autor
                   /\ e.anoPublicacao = b.anoPublicacao
                   /\ e.editora = b.editora
                   /\ e.isbn = b.isbn
                   /\ e.quantTotal = b.quantTotal
                   /\ e.quantDisponivel = b.quantDisponivel
                   /\ e.valorAquisicao = b.valorAquisicao
                   /\ e.statusLivroEmprestado = b.statusLivroEmprestado

\* C5 witness: atualizar was asked with the route parameter "42" and a body
\* that has an identifier of its own, and atualizarLivro got identifier 42.
UpdateEntityWitness ==
    \E i \in Invocations :
        /\ Started(i) /\ req[i].handler = "atualizar"
        /\ req[i].params.idLivro = Str(<<"4", "2">>)
        /\ req[i].body = <<BodyCompleto>>
        /\ Len(call[i]) = 1
        /\ call[i][1].args[1].idLivro = Num(42)

NoDeduplication ==
    /\ repoCount["cadastroLivro"] =
          Cardinality({i \in Invocations :
                          Started(i) /\ req[i].handler = "novo" /\ req[i].body # <<>>})
    /\ \A i \in Invocations :
          (Started(i) /\ req[i].handler = "novo" /\ req[i].body # <<>>) =>
              /\ Len(call[i]) = 1
              /\ call[i][1].m = "cadastroLivro"
              /\ promise[i].kind # "none"
    /\ \A i, j \in Invocations :
          (Done(i) /\ Done(j) /\ req[i].handler = "novo" /\ req[j].handler = "novo"
              /\ req[i].body # <<>> /\ req[j].body # <<>>) =>
              /\ promise[i].kind = promise[j].kind /\ promise[i].val = promise[j].val
                    => sent[i] = sent[j]
              /\ Truthy(promise[i].val) # Truthy(promise[j].val) => sent[i] # sent[j]

\* C7 witness: two novo with the same body, two calls of cadastroLivro, one
\* answered 200 and the other 400.
NoDeduplicationWitness ==
    \E i, j \in Invocations :
        /\ i # j /\ Done(i) /\ Done(j)
        /\ req[i].handler = "novo" /\ req[j] = req[i] /\ req[i].body # <<>>
        /\ repoCount["cadastroLivro"] = 2
        /\ sent[i][1].status = 200 /\ sent[j][1].status = 400

\* C8: a handler suspended at its await writes nothing and leaves the await
\* only by the settling of the promise; once the promise has settled the
\* handler finishes with its one response.
RunsToCompletion ==
    /\ [](\A i \in Invocations : pc[i] = "awaiting" => sent[i] = <<>>)
    /\ [][\A i \in Invocations :
            pc[i] = "awaiting" =>
                \/ pc'[i] = "awaiting" /\ sent'[i] = sent[i] /\ promise'[i] = Pending
                \/ pc'[i] = "settled" /\ promise'[i].kind \in {"resolved", "rejected"}]_vars
    /\ \A i \in Invocations :
          (pc[i] = "settled") ~> (pc[i] = "done" /\ Len(sent[i]) = 1)

\* C8 witness: one invocation has finished with its response after its
\* promise settled while another is still suspended with nothing sent.
RunsToCompletionWitness ==
    \E i, j \in Invocations :
        /\ Done(i) /\ promise[i].kind \in {"resolved", "rejected"} /\ Len(sent[i]) = 1
        /\ pc[j] = "awaiting" /\ promise[j] = Pending /\ sent[j] = <<>>

\* what belongs to invocation i
Own(i) == <<pc[i], req[i], frame[i], promise[i], call[i], sent[i], returned[i]>>

\* C9: what an invocation passes to Livro depends on its request alone and
\* what it answers on its request and its own outcome alone, whatever the
\* interleaving; no step of one invocation changes what belongs to another.
NonInterference ==
    /\ [](\A i, j \in Invocations :
            /\ (Started(i) /\ Started(j) /\ req[i] = req[j]) => call[i] = call[j]
            /\ (Done(i) /\ Done(j) /\ req[i] = req[j] /\ promise[i] = promise[j]) =>
                  sent[i] = sent[j] /\ returned[i] = returned[j])
    /\ [][\A i, j \in Invocations :
            i # j => ~(Own(i)' # Own(i) /\ Own(j)' # Own(j))]_vars

\* C9 witness: two atualizar with the same request, interleaved, finished
\* with the same call and, their outcomes differing, different answers.
NonInterferenceWitness ==
    \E i, j \in Invocations :
        /\ i # j /\ Done(i) /\ Done(j)
        /\ req[i].handler = "atualizar" /\ req[j] = req[i] /\ req[i].body # <<>>
        /\ call[i] = call[j] /\ Len(call[i]) = 1
        /\ promise[i] = Resolved(Bool(TRUE)) /\ promise[j] = Rejected
        /\ sent[i] # sent[j]

MethodOf(h) ==
    CASE h = "todos"     -> "listagemLivros"
      [] h = "novo"      -> "cadastroLivro"
      [] h = "remover"   -> "removerLivro"
      [] h = "atualizar" -> "atualizarLivro"

\* C10: an invocation calls at most one Livro method, at most once, and
\* only the method of its handler; novo and atualizar asked without a body
\* call none and answer 400 with the thrown-error text, not the failure text.
OneCallPerInvocation ==
    /\ \A i \in Invocations :
          /\ Len(call[i]) <= 1
          /\ call[i] # <<>> => call[i][1].m = MethodOf(req[i].handler)
          /\ (Started(i) /\ req[i].handler \in {"novo", "atualizar"} /\ req[i].body = <<>>) =>
                /\ call[i] = <<>>
                /\ Done(i)
                /\ Len(sent[i]) = 1
                /\ sent[i][1].status = 400
                /\ Text(sent[i][1]) = ThrownText(req[i].handler)
                /\ Text(sent[i][1]) # FailureText(req[i].handler)
    /\ \A m \in Methods :
          repoCount[m] = Cardinality({i \in Invocations : call[i] # <<>> /\ call[i][1].m = m})

\* C10 witness: atualizar asked without a body has finished, no Livro
\* method was called, while a novo asked with a body has called cadastroLivro.
OneCallWitness ==
    \E i, j \in Invocations :
        /\ Done(i) /\ req[i].handler = "atualizar" /\ req[i].body = <<>>
        /\ call[i] = <<>> /\ repoCount["atualizarLivro"] = 0
        /\ Started(j) /\ req[j].handler = "novo" /\ Len(call[j]) = 1
        /\ repoCount["cadastroLivro"] = 1

====
